---- MODULE Spec2Model ----
(***************************************************************************)
(* Siren hypermedia types (src/src/types.rs): the Entity builder, the      *)
(* serde encoding of the tree to JSON and its decoding, including the      *)
(* untagged Link / Embedded resolution of SubEntity.                       *)
(*                                                                         *)
(* JSON values are tagged tuples: <<"null">>, <<"bool", b>>, <<"num", n>>, *)
(* <<"str", s>>, <<"arr", seq>>, <<"obj", map>> where map is a function    *)
(* from the keys that are present to JSON values.                          *)
(***************************************************************************)
EXTENDS Integers, Sequences, FiniteSets, TLC

\* ---------------------------------------------------------------- bounds
MaxCalls == 3

\* ------------------------------------------------------- JSON and Option
JNull == <<"null">>
JStr(s) == <<"str", s>>
JNum(n) == <<"num", n>>
JArr(s) == <<"arr", s>>
JObj(m) == <<"obj", m>>
EmptyMap == [k \in {} |-> JNull]
EmptyObject == JObj(EmptyMap)

None == <<"None">>
Some(x) == <<"Some", x>>

Ok(v) == <<"Ok", v>>
Err(kind, what) == <<"Err", kind, what>>
IsOk(r) == r[1] = "Ok"
MissingField(k) == Err("missing_field", k)
InvalidType(expected) == Err("invalid_type", expected)
NoVariant == Err("no_variant", "data did not match any variant of untagged enum SubEntity")

AllOk(rs) == \A i \in 1..Len(rs) : IsOk(rs[i])
FirstErr(rs) == rs[CHOOSE i \in 1..Len(rs) : ~IsOk(rs[i]) /\ \A j \in 1..(i-1) : IsOk(rs[j])]

\* The error of a derived struct visitor: a present entry that does not decode
\* fails while the entries are read; the missing fields are looked at only
\* after every entry was read, in declaration order.  keys[i] is the wire
\* name of the field whose result is rs[i].
StructErr(o, keys, rs) ==
  LET bad == {i \in 1..Len(rs) : ~IsOk(rs[i]) /\ keys[i] \in DOMAIN o}
      missing == {i \in 1..Len(rs) : ~IsOk(rs[i])}
      first(S) == CHOOSE i \in S : \A j \in S : i <= j
  IN IF bad # {} THEN rs[first(bad)] ELSE rs[first(missing)]

\* ------------------------------------------------------------ encoding
EncVecString(s) == JArr([i \in 1..Len(s) |-> JStr(s[i])])
\* #[serde(skip_serializing_if = "Option::is_none")]
EncOptString(k, o) == IF o = None THEN EmptyMap ELSE (k :> JStr(o[2]))

\* crate::http_serde::option_method::serialize
OptionMethodSerialize(m) == IF m = None THEN JNull ELSE JStr(m[2])

EncField(f) ==
  JObj([name |-> JStr(f.name), class |-> EncVecString(f.class)]
       @@ EncOptString("type", f._type)
       @@ EncOptString("value", f.value)
       @@ EncOptString("title", f.title))

EncAction(a) ==
  JObj([name |-> JStr(a.name),
        class |-> EncVecString(a.class),
        method |-> OptionMethodSerialize(a.method),
        href |-> JStr(a.href),
        fields |-> JArr([i \in 1..Len(a.fields) |-> EncField(a.fields[i])])]
       @@ EncOptString("title", a.title)
       @@ EncOptString("type", a._type))

EncNavigationalLink(l) ==
  JObj([rel |-> EncVecString(l.rel),
        class |-> EncVecString(l.class),
        href |-> JStr(l.href)]
       @@ EncOptString("title", l.title)
       @@ EncOptString("type", l._type))

EncEntityLink(l) ==
  JObj([class |-> EncVecString(l.class),
        rel |-> EncVecString(l.rel),
        href |-> JStr(l.href)]
       @@ EncOptString("title", l.title)
       @@ EncOptString("type", l._type))

RECURSIVE EncEntity(_)
RECURSIVE EncSubEntity(_)

EncEntity(e) ==
  JObj([class |-> EncVecString(e.class),
        properties |-> e.properties,
        entities |-> JArr([i \in 1..Len(e.entities) |-> EncSubEntity(e.entities[i])]),
        links |-> JArr([i \in 1..Len(e.links) |-> EncNavigationalLink(e.links[i])]),
        actions |-> JArr([i \in 1..Len(e.actions) |-> EncAction(e.actions[i])])]
       @@ EncOptString("title", e.title))

\* faulty variant: the Embedded variant is emitted without its rel
EncSubEntity_DropsRel(s) ==
  IF s.variant = "Link" THEN EncEntityLink(s.inner) ELSE EncEntity(s.inner)

\* untagged: no wrapper; flatten: the inner fields are emitted in place
EncSubEntity(s) ==
  IF s.variant = "Link"
    THEN EncEntityLink(s.inner)
    ELSE JObj(EncEntity(s.inner)[2] @@ ("rel" :> EncVecString(s.rel)))

\* ------------------------------------------------------------ decoding
DecString(j) == IF j[1] = "str" THEN Ok(j[2]) ELSE InvalidType("a string")

DecOptString(j) ==
  IF j[1] = "null" THEN Ok(None)
  ELSE IF j[1] = "str" THEN Ok(Some(j[2]))
  ELSE InvalidType("a string")

DecValue(j) == Ok(j)

DecVec(Dec(_), j) ==
  IF j[1] # "arr" THEN InvalidType("a sequence")
  ELSE LET rs == [i \in 1..Len(j[2]) |-> Dec(j[2][i])]
       IN IF AllOk(rs) THEN Ok([i \in 1..Len(rs) |-> rs[i][2]]) ELSE FirstErr(rs)

DecVecString(j) == DecVec(DecString, j)

\* a field carrying #[serde(default)]: absent on the wire gives the default
WithDefault(o, k, Dec(_), d) == IF k \in DOMAIN o THEN Dec(o[k]) ELSE Ok(d)
\* a field without it: absent on the wire is an error
Required(o, k, Dec(_)) == IF k \in DOMAIN o THEN Dec(o[k]) ELSE MissingField(k)

\* crate::http_serde::option_method::deserialize
OptionMethodDeserialize(j) ==
  IF j[1] = "null" THEN Ok(None)
  ELSE IF j[1] = "str" THEN Ok(Some(j[2]))
  ELSE InvalidType("a method")

\* a derived struct: the value made of the fields when every field decoded
Struct(o, keys, rs, Make(_)) ==
  IF AllOk(rs) THEN Ok(Make(rs)) ELSE StructErr(o, keys, rs)

DecField(j) ==
  IF j[1] # "obj" THEN InvalidType("struct Field")
  ELSE Struct(j[2], <<"name", "class", "type", "value", "title">>,
              << Required(j[2], "name", DecString),
                 WithDefault(j[2], "class", DecVecString, <<>>),
                 WithDefault(j[2], "type", DecOptString, None),
                 WithDefault(j[2], "value", DecOptString, None),
                 WithDefault(j[2], "title", DecOptString, None) >>,
              LAMBDA rs : [name |-> rs[1][2], class |-> rs[2][2], _type |-> rs[3][2],
                           value |-> rs[4][2], title |-> rs[5][2]])

DecFields(j) == DecVec(DecField, j)

\* method has #[serde(with = ...)] and no #[serde(default)]
DecAction(j) ==
  IF j[1] # "obj" THEN InvalidType("struct Action")
  ELSE Struct(j[2], <<"name", "class", "method", "href", "title", "type", "fields">>,
              << Required(j[2], "name", DecString),
                 WithDefault(j[2], "class", DecVecString, <<>>),
                 Required(j[2], "method", OptionMethodDeserialize),
                 Required(j[2], "href", DecString),
                 WithDefault(j[2], "title", DecOptString, None),
                 WithDefault(j[2], "type", DecOptString, None),
                 WithDefault(j[2], "fields", DecFields, <<>>) >>,
              LAMBDA rs : [name |-> rs[1][2], class |-> rs[2][2], method |-> rs[3][2],
                           href |-> rs[4][2], title |-> rs[5][2], _type |-> rs[6][2],
                           fields |-> rs[7][2]])

\* faulty variant: rel is given #[serde(default)] like the rel of EntityLink
DecNavigationalLink_RelDefaulted(j) ==
  IF j[1] # "obj" THEN InvalidType("struct NavigationalLink")
  ELSE Struct(j[2], <<"rel", "class", "href", "title", "type">>,
              << WithDefault(j[2], "rel", DecVecString, <<>>),
                 WithDefault(j[2], "class", DecVecString, <<>>),
                 Required(j[2], "href", DecString),
                 WithDefault(j[2], "title", DecOptString, None),
                 WithDefault(j[2], "type", DecOptString, None) >>,
              LAMBDA rs : [rel |-> rs[1][2], class |-> rs[2][2], href |-> rs[3][2],
                           title |-> rs[4][2], _type |-> rs[5][2]])

\* rel and href carry no #[serde(default)]
DecNavigationalLink(j) ==
  IF j[1] # "obj" THEN InvalidType("struct NavigationalLink")
  ELSE Struct(j[2], <<"rel", "class", "href", "title", "type">>,
              << Required(j[2], "rel", DecVecString),
                 WithDefault(j[2], "class", DecVecString, <<>>),
                 Required(j[2], "href", DecString),
                 WithDefault(j[2], "title", DecOptString, None),
                 WithDefault(j[2], "type", DecOptString, None) >>,
              LAMBDA rs : [rel |-> rs[1][2], class |-> rs[2][2], href |-> rs[3][2],
                           title |-> rs[4][2], _type |-> rs[5][2]])

DecNavigationalLinks(j) == DecVec(DecNavigationalLink, j)
DecActions(j) == DecVec(DecAction, j)

\* decoded from the entries of the enclosing object (serde flatten)
DecEntityLink(o) ==
  Struct(o, <<"class", "title", "rel", "href", "type">>,
         << WithDefault(o, "class", DecVecString, <<>>),
            WithDefault(o, "title", DecOptString, None),
            WithDefault(o, "rel", DecVecString, <<>>),
            Required(o, "href", DecString),
            WithDefault(o, "type", DecOptString, None) >>,
         LAMBDA rs : [class |-> rs[1][2], title |-> rs[2][2], rel |-> rs[3][2],
                      href |-> rs[4][2], _type |-> rs[5][2]])

RECURSIVE DecEntityMap(_)
RECURSIVE DecSubEntity(_)

DecSubEntities(j) == DecVec(DecSubEntity, j)

\* the fields of Entity read from the entries of an object; every field has
\* #[serde(default)], and the default of serde_json::Value is Value::Null
DecEntityMap(o) ==
  Struct(o, <<"class", "properties", "entities", "links", "actions", "title">>,
         << WithDefault(o, "class", DecVecString, <<>>),
            WithDefault(o, "properties", DecValue, JNull),
            WithDefault(o, "entities", DecSubEntities, <<>>),
            WithDefault(o, "links", DecNavigationalLinks, <<>>),
            WithDefault(o, "actions", DecActions, <<>>),
            WithDefault(o, "title", DecOptString, None) >>,
         LAMBDA rs : [class |-> rs[1][2], properties |-> rs[2][2],
                      entities |-> rs[3][2], links |-> rs[4][2],
                      actions |-> rs[5][2], title |-> rs[6][2]])

DecEntity(j) == IF j[1] # "obj" THEN InvalidType("struct Entity") ELSE DecEntityMap(j[2])

\* the value of a variant from the results of its fields
Variant(rs, Make(_)) == IF AllOk(rs) THEN Ok(Make(rs)) ELSE FirstErr(rs)

\* SubEntity::Link { #[serde(flatten)] inner: EntityLink }
DecLinkVariant(j) ==
  IF j[1] # "obj" THEN InvalidType("a map")
  ELSE Variant(<< DecEntityLink(j[2]) >>,
               LAMBDA rs : [variant |-> "Link", inner |-> rs[1][2]])

\* SubEntity::Embedded { #[serde(flatten)] inner: Entity, #[serde(default)] rel }
DecEmbeddedVariant(j) ==
  IF j[1] # "obj" THEN InvalidType("a map")
  ELSE Variant(<< WithDefault(j[2], "rel", DecVecString, <<>>), DecEntityMap(j[2]) >>,
               LAMBDA rs : [variant |-> "Embedded", inner |-> rs[2][2], rel |-> rs[1][2]])

\* the first of the two results that is a value; the errors are discarded
Untagged(first, second) ==
  IF IsOk(first) THEN first ELSE IF IsOk(second) THEN second ELSE NoVariant

\* faulty variant: the error of the last variant tried is handed to the caller
LastError(first, second) == IF IsOk(first) THEN first ELSE second

\* faulty variant: the variants are declared, and so tried, in the other order
DecSubEntity_EmbeddedFirst(j) == Untagged(DecEmbeddedVariant(j), DecLinkVariant(j))

\* faulty variant: the error of the Embedded variant is handed to the caller
DecSubEntity_LastError(j) == LastError(DecLinkVariant(j), DecEmbeddedVariant(j))

\* #[serde(untagged)]: the variants are tried in declaration order, Link
\* before Embedded, and the first that decodes wins
DecSubEntity(j) == Untagged(DecLinkVariant(j), DecEmbeddedVariant(j))

\* ------------------------------------------------------------- builder
\* impl Default for Entity
EntityDefault ==
  [class |-> <<>>, properties |-> EmptyObject, entities |-> <<>>,
   links |-> <<>>, actions |-> <<>>, title |-> None]

\* Values handed to with_properties, before conversion to JSON:
\* <<"i64", n>>, <<"String", s>>, <<"bool", b>>, <<"unit">>, <<"Vec", seq>>,
\* <<"Map", seq of <<key, value>>>>.
RInt(n) == <<"i64", n>>
RString(s) == <<"String", s>>
RBool(b) == <<"bool", b>>
RUnit == <<"unit">>
RVec(s) == <<"Vec", s>>
RMap(ps) == <<"Map", ps>>

RECURSIVE ToValue(_)
\* serde_json::to_value: a map whose key is not a string cannot be converted
ToValue(v) ==
  CASE v[1] = "i64" -> Ok(JNum(v[2]))
    [] v[1] = "String" -> Ok(JStr(v[2]))
    [] v[1] = "bool" -> Ok(<<"bool", v[2]>>)
    [] v[1] = "unit" -> Ok(JNull)
    [] v[1] = "Vec" ->
         LET rs == [i \in 1..Len(v[2]) |-> ToValue(v[2][i])]
         IN IF AllOk(rs) THEN Ok(JArr([i \in 1..Len(rs) |-> rs[i][2]])) ELSE FirstErr(rs)
    [] v[1] = "Map" ->
         LET ps == v[2]
             vs == [i \in 1..Len(ps) |-> ToValue(ps[i][2])]
             last(k) == CHOOSE i \in 1..Len(ps) :
                          /\ ps[i][1][2] = k
                          /\ \A j \in (i+1)..Len(ps) : ps[j][1][2] # k
         IN IF \E i \in 1..Len(ps) : ps[i][1][1] # "String"
              THEN Err("Serde", "key must be a string")
            ELSE IF ~AllOk(vs) THEN FirstErr(vs)
            ELSE Ok(JObj([k \in {ps[i][1][2] : i \in 1..Len(ps)} |-> vs[last(k)][2]]))

\* faulty variant: any JSON container is taken, not only an object
with_properties_AcceptsArrays(self, serializable) ==
  LET value == ToValue(serializable)
  IN IF ~IsOk(value) THEN Err("Serde", value[3])
     ELSE IF value[2][1] \in {"obj", "arr"}
       THEN Ok([self EXCEPT !.properties = value[2]])
       ELSE Err("NotAnObject", "does not serialize to an object")

\* faulty variant: the struct update takes the other fields from Entity::default()
with_properties_FromDefault(self, serializable) ==
  LET value == ToValue(serializable)
  IN IF ~IsOk(value) THEN Err("Serde", value[3])
     ELSE IF value[2][1] = "obj"
       THEN Ok([EntityDefault EXCEPT !.properties = value[2]])
       ELSE Err("NotAnObject", "does not serialize to an object")

with_properties(self, serializable) ==
  LET value == ToValue(serializable)
  IN IF ~IsOk(value) THEN Err("Serde", value[3])
     ELSE IF value[2][1] = "obj"
       THEN Ok([self EXCEPT !.properties = value[2]])
       ELSE Err("NotAnObject", "does not serialize to an object")

\* faulty variant: a class member already present is not appended again
with_class_member_Dedups(self, class_member) ==
  IF \E i \in 1..Len(self.class) : self.class[i] = class_member
    THEN self
    ELSE [self EXCEPT !.class = Append(@, class_member)]

with_class_member(self, class_member) == [self EXCEPT !.class = Append(@, class_member)]

with_link(self, link) == [self EXCEPT !.links = Append(@, link)]

with_action(self, action) == [self EXCEPT !.actions = Append(@, action)]

\* faulty variant: the sub-entity is inserted at the front
push_sub_entity_Prepends(self, sub_entity) ==
  [self EXCEPT !.entities = <<sub_entity>> \o @]

push_sub_entity(self, sub_entity) == [self EXCEPT !.entities = Append(@, sub_entity)]

from_link(entity_link) == [variant |-> "Link", inner |-> entity_link]

from_entity(e, rels) == [variant |-> "Embedded", inner |-> e, rel |-> rels]

NavigationalLink_new(rels, href) ==
  [href |-> href, rel |-> rels, class |-> <<>>, title |-> None, _type |-> None]

NavigationalLink_with_class_member(self, class_member) ==
  [self EXCEPT !.class = Append(@, class_member)]

NavigationalLink_with_type(self, t) == [self EXCEPT !._type = Some(t)]

NavigationalLink_with_title(self, title) == [self EXCEPT !.title = Some(title)]

\* ------------------------------------------------------ builder inputs
ClassMembers == {"a", "b", "c"}

KevinMap == RMap(<< <<RString("name"), RString("Kevin")>>, <<RString("age"), RInt(30)>> >>)

Serializables ==
  { KevinMap, RMap(<<>>), RInt(42), RString("s"), RVec(<<RInt(1), RInt(2)>>),
    RBool(TRUE), RUnit, RMap(<< <<RVec(<<>>), RInt(1)>> >>) }

Links ==
  { NavigationalLink_new(<<"self">>, "http://x/1"),
    NavigationalLink_with_title(
      NavigationalLink_with_type(
        NavigationalLink_with_class_member(NavigationalLink_new(<<>>, "http://x/2"), "c"),
        "text/html"),
      "t") }

Fields ==
  << [name |-> "q", class |-> <<>>, _type |-> Some("text"), value |-> None, title |-> None] >>

Actions ==
  { [name |-> "add", class |-> <<>>, method |-> None, href |-> "http://x/add",
     title |-> None, _type |-> None, fields |-> <<>>],
    [name |-> "add", class |-> <<"c">>, method |-> Some("POST"), href |-> "http://x/add",
     title |-> Some("Add"), _type |-> Some("application/json"), fields |-> Fields] }

EntityLinks ==
  { [class |-> <<>>, title |-> None, rel |-> <<"item">>, href |-> "http://x/1", _type |-> None],
    [class |-> <<"c">>, title |-> Some("t"), rel |-> <<>>, href |-> "http://x/2",
     _type |-> Some("text/html")] }

Rels == { <<"item">>, <<>> }

SubEntities ==
  {from_link(l) : l \in EntityLinks} \cup {from_entity(EntityDefault, <<"item">>)}

\* ---------------------------------------------------------------- state
VARIABLES
  entity,   \* the Entity under construction
  held,     \* FALSE once with_properties has consumed the Entity and failed
  calls,    \* builder calls made on the tree since Entity::default()
  log,      \* the calls made on the current Entity: [op, arg], in call order
  result,   \* <<>> or <<[arg, out]>>: the last with_properties call
  rt,       \* <<>> or <<[log, src, wire, back]>>: the last encode/decode
  dec       \* the last document decoded: [kind, doc, out]

vars == <<entity, held, calls, log, result, rt, dec>>

Init ==
  /\ entity = EntityDefault
  /\ held = TRUE
  /\ calls = 0
  /\ log = <<>>
  /\ result = <<>>
  /\ rt = <<>>
  /\ dec = [kind |-> "none", doc |-> JNull, out |-> Err("none", "none")]

Call(op, arg) == [op |-> op, arg |-> arg]

WithProperties(s) ==
  /\ held /\ calls < MaxCalls
  /\ LET r == with_properties(entity, s)
     IN /\ result' = << [arg |-> s, out |-> r] >>
        /\ IF IsOk(r)
             THEN entity' = r[2] /\ held' = TRUE
             ELSE entity' = entity /\ held' = FALSE
  /\ log' = Append(log, Call("with_properties", s))
  /\ calls' = calls + 1
  /\ UNCHANGED <<rt, dec>>

WithClassMember(c) ==
  /\ held /\ calls < MaxCalls
  /\ entity' = with_class_member(entity, c)
  /\ log' = Append(log, Call("with_class_member", c))
  /\ calls' = calls + 1
  /\ UNCHANGED <<held, result, rt, dec>>

WithLink(l) ==
  /\ held /\ calls < MaxCalls
  /\ entity' = with_link(entity, l)
  /\ log' = Append(log, Call("with_link", l))
  /\ calls' = calls + 1
  /\ UNCHANGED <<held, result, rt, dec>>

WithAction(a) ==
  /\ held /\ calls < MaxCalls
  /\ entity' = with_action(entity, a)
  /\ log' = Append(log, Call("with_action", a))
  /\ calls' = calls + 1
  /\ UNCHANGED <<held, result, rt, dec>>

PushSubEntity(s) ==
  /\ held /\ calls < MaxCalls
  /\ entity' = push_sub_entity(entity, s)
  /\ log' = Append(log, Call("push_sub_entity", s))
  /\ calls' = calls + 1
  /\ UNCHANGED <<held, result, rt, dec>>

\* bottom-up assembly: the Entity built so far becomes the first embedded
\* sub-entity of a new parent
Embed(rels) ==
  /\ held /\ calls < MaxCalls
  /\ LET s == from_entity(entity, rels)
     IN /\ entity' = push_sub_entity(EntityDefault, s)
        /\ log' = << Call("push_sub_entity", s) >>
  /\ calls' = calls + 1
  /\ UNCHANGED <<held, result, rt, dec>>

\* Entity::default() after the previous chain was lost
Restart ==
  /\ ~held
  /\ entity' = EntityDefault
  /\ held' = TRUE
  /\ calls' = 0
  /\ log' = <<>>
  /\ result' = <<>>
  /\ rt' = <<>>
  /\ UNCHANGED dec

\* serde_json::to_value(&entity) followed by serde_json::from_value
RoundTrip ==
  /\ held
  /\ rt' = << [log |-> log, src |-> entity, wire |-> EncEntity(entity),
               back |-> DecEntity(EncEntity(entity))] >>
  /\ UNCHANGED <<entity, held, calls, log, result, dec>>

Next ==
  \/ \E s \in Serializables : WithProperties(s)
  \/ \E c \in ClassMembers : WithClassMember(c)
  \/ \E l \in Links : WithLink(l)
  \/ \E a \in Actions : WithAction(a)
  \/ \E s \in SubEntities : PushSubEntity(s)
  \/ \E rels \in Rels : Embed(rels)
  \/ Restart
  \/ RoundTrip

Spec == Init /\ [][Next]_vars

\* ------------------------------------------------------ decoder inputs
\* A document is drawn as a record giving each key a JSON value or Absent;
\* Strip keeps the keys that are present and gives the JSON object.
Absent == <<"absent">>
Strip(r) == JObj([k \in {f \in DOMAIN r : r[f] # Absent} |-> r[k]])

JStrings(s) == JArr([i \in 1..Len(s) |-> JStr(s[i])])
KevinObject == JObj([name |-> JStr("Kevin"), age |-> JNum(30)])

NavigationalLinkDocs ==
  [rel : {Absent, JStrings(<<"self">>), JStr("self")},
   href : {Absent, JStr("http://x/1"), JNum(5)},
   class : {Absent, JStrings(<<"c">>)},
   title : {Absent, JStr("t"), JNull},
   type : {Absent, JStr("text/html")}]

ActionDocs ==
  [name : {Absent, JStr("add")},
   href : {Absent, JStr("http://x/add")},
   method : {Absent, JStr("GET"), JStr("POST"), JNull, JNum(1)},
   class : {Absent, JStrings(<<"c">>)},
   title : {Absent, JStr("Add")},
   type : {Absent, JStr("application/json")},
   fields : {Absent, JArr(<<JObj([name |-> JStr("q")])>>), JArr(<<EmptyObject>>)}]

LinksDocs ==
  {Absent,
   JArr(<<JObj([rel |-> JStrings(<<"self">>), href |-> JStr("http://x/1")])>>),
   JArr(<<JObj([href |-> JStr("http://x/1")])>>)}

ActionsDocs ==
  {Absent,
   JArr(<<JObj([name |-> JStr("add"), href |-> JStr("http://x/add"), method |-> JStr("POST")])>>),
   JArr(<<JObj([name |-> JStr("add"), href |-> JStr("http://x/add")])>>)}

EntitiesDocs ==
  {Absent,
   JArr(<<JObj([href |-> JStr("http://x/2")])>>),
   JArr(<<JObj([rel |-> JStrings(<<"item">>)])>>),
   JArr(<<JObj([rel |-> JStrings(<<"item">>),
                entities |-> JArr(<<JObj([properties |-> JArr(<<>>)])>>)])>>),
   JArr(<<JObj([class |-> JNum(5)])>>)}

SubEntityDocs ==
  [href : {Absent, JStr("http://x/1"), JNum(5)},
   rel : {Absent, JStrings(<<"item">>), JStr("item")},
   class : {Absent, JStrings(<<"c">>), JNum(5)},
   title : {Absent, JStr("t")},
   type : {Absent, JStr("text/html")},
   properties : {Absent, KevinObject, JNum(42)},
   entities : {Absent, JArr(<<JObj([href |-> JStr("http://x/2")])>>),
               JArr(<<JObj([class |-> JNum(5)])>>)},
   links : LinksDocs,
   actions : ActionsDocs]

EntityDocs ==
  [class : {Absent, JStrings(<<"c">>)},
   properties : {Absent, KevinObject, EmptyObject, JNum(42), JNull},
   entities : EntitiesDocs,
   links : LinksDocs,
   actions : ActionsDocs,
   title : {Absent, JStr("t")}]

\* ------------------------------------------------------------- decoder
\* Each decode is one call of a pure function on one document: it is taken
\* once, from the state in which nothing has been decoded yet.
Decoded(kind, doc, out) == [kind |-> kind, doc |-> doc, out |-> out]

\* serde_json::from_value::<SubEntity>(doc)
DecodeSubEntity(doc) ==
  /\ dec.kind = "none"
  /\ dec' = Decoded("SubEntity", doc, DecSubEntity(doc))
  /\ UNCHANGED <<entity, held, calls, log, result, rt>>

\* serde_json::from_value::<Entity>(doc)
DecodeEntity(doc) ==
  /\ dec.kind = "none"
  /\ dec' = Decoded("Entity", doc, DecEntity(doc))
  /\ UNCHANGED <<entity, held, calls, log, result, rt>>

\* serde_json::from_value::<Action>(doc)
DecodeAction(doc) ==
  /\ dec.kind = "none"
  /\ dec' = Decoded("Action", doc, DecAction(doc))
  /\ UNCHANGED <<entity, held, calls, log, result, rt>>

\* serde_json::from_value::<NavigationalLink>(doc)
DecodeNavigationalLink(doc) ==
  /\ dec.kind = "none"
  /\ dec' = Decoded("NavigationalLink", doc, DecNavigationalLink(doc))
  /\ UNCHANGED <<entity, held, calls, log, result, rt>>

NextDecode ==
  \/ \E r \in SubEntityDocs : DecodeSubEntity(Strip(r))
  \/ \E r \in EntityDocs : DecodeEntity(Strip(r))
  \/ \E r \in ActionDocs : DecodeAction(Strip(r))
  \/ \E r \in NavigationalLinkDocs : DecodeNavigationalLink(Strip(r))

SpecDecode == Init /\ [][NextDecode]_vars

\* ------------------------------------------------- properties: decoding
\* What the specification calls the link shape, read off the document: a
\* string href, and every other link field absent or of its type.
IsStringArray(j) == j[1] = "arr" /\ \A i \in 1..Len(j[2]) : j[2][i][1] = "str"
IsOptionalString(j) == j[1] \in {"null", "str"}
LinkShapeAccepts(j) ==
  /\ j[1] = "obj"
  /\ "href" \in DOMAIN j[2] /\ j[2].href[1] = "str"
  /\ "class" \in DOMAIN j[2] => IsStringArray(j[2].class)
  /\ "rel" \in DOMAIN j[2] => IsStringArray(j[2].rel)
  /\ "title" \in DOMAIN j[2] => IsOptionalString(j[2].title)
  /\ "type" \in DOMAIN j[2] => IsOptionalString(j[2].type)

AmbiguousDoc == JObj([href |-> JStr("http://x/1"), rel |-> JStrings(<<"item">>)])

\* C1: a sub-entity document that the link shape accepts decodes to the Link
\* variant with its href, also when the embedded shape accepts it too;
\* {"href":"http://x/1","rel":["item"]} decodes to Link with that href and
\* rel ["item"]; Embedded results only from a document the link shape rejects.
C1_LinkShapeFirst ==
  dec.kind = "SubEntity" =>
    /\ LinkShapeAccepts(dec.doc) =>
         /\ IsOk(dec.out)
         /\ dec.out[2].variant = "Link"
         /\ dec.out[2].inner.href = dec.doc[2].href[2]
    /\ dec.doc = AmbiguousDoc =>
         dec.out = Ok([variant |-> "Link",
                       inner |-> [class |-> <<>>, title |-> None, rel |-> <<"item">>,
                                  href |-> "http://x/1", _type |-> None]])
    /\ (IsOk(dec.out) /\ dec.out[2].variant = "Embedded") => ~LinkShapeAccepts(dec.doc)

\* the ambiguous document was decoded: both shapes accept it, Link was chosen
C1_Witness ==
  /\ dec.kind = "SubEntity"
  /\ dec.doc = AmbiguousDoc
  /\ IsOk(DecEmbeddedVariant(dec.doc))
  /\ IsOk(dec.out) /\ dec.out[2].variant = "Link"

\* C4: an Action document with name and href and no method key decodes
\* successfully to an Action whose method is GET.
C4_MethodDefaultsToGet ==
  (/\ dec.kind = "Action"
   /\ dec.doc = JObj([name |-> JStr("add"), href |-> JStr("http://x/add")]))
  => (IsOk(dec.out) /\ dec.out[2].method = Some("GET"))

RECURSIVE PropertiesAreObjects(_)
PropertiesAreObjects(e) ==
  /\ e.properties[1] = "obj"
  /\ \A i \in 1..Len(e.entities) :
       e.entities[i].variant = "Embedded" => PropertiesAreObjects(e.entities[i].inner)

\* C5: every Entity obtained from Entity::default(), the builder or a
\* successful decode has a JSON object as properties, at every depth.
C5_PropertiesIsObject ==
  /\ held => PropertiesAreObjects(entity)
  /\ (dec.kind = "Entity" /\ IsOk(dec.out)) => PropertiesAreObjects(dec.out[2])

\* C6 as stated: a NavigationalLink document with href and no rel decodes to
\* a link with an empty rel; one with rel and no href is a decode error.
C6_MissingRelDefaults ==
  dec.kind = "NavigationalLink" =>
    /\ dec.doc = JObj([href |-> JStr("http://x/1")]) =>
         (IsOk(dec.out) /\ dec.out[2].rel = <<>>)
    /\ ("rel" \in DOMAIN dec.doc[2] /\ "href" \notin DOMAIN dec.doc[2]) => ~IsOk(dec.out)

\* C6 amended: a NavigationalLink document without rel is a decode error
\* (missing field rel when nothing else is wrong), and so is one without href.
C6_RelAndHrefRequired ==
  dec.kind = "NavigationalLink" =>
    /\ "rel" \notin DOMAIN dec.doc[2] => ~IsOk(dec.out)
    /\ "href" \notin DOMAIN dec.doc[2] => ~IsOk(dec.out)
    /\ dec.doc = JObj([href |-> JStr("http://x/1")]) => dec.out = MissingField("rel")
    /\ dec.doc = JObj([rel |-> JStrings(<<"self">>)]) => dec.out = MissingField("href")

\* a link document with a string href and no rel was decoded, and rejected
C6_Witness ==
  /\ dec.kind = "NavigationalLink"
  /\ dec.doc = JObj([href |-> JStr("http://x/1")])
  /\ ~IsOk(dec.out)

\* neither the link shape nor the embedded shape takes the document
NeitherShape(j) == ~LinkShapeAccepts(j) /\ ~IsOk(DecEmbeddedVariant(j))

\* C7 as stated: when neither shape takes the document, decoding is an error
\* that names the missing required field.
C7_ErrorNamesMissingField ==
  (dec.kind = "SubEntity" /\ NeitherShape(dec.doc)) =>
    (~IsOk(dec.out) /\ dec.out[2] = "missing_field")

\* C7 amended: when neither shape takes the document, decoding is an error,
\* and the error is the generic one of the untagged enum.
C7_NoVariantError ==
  (dec.kind = "SubEntity" /\ NeitherShape(dec.doc)) =>
    (~IsOk(dec.out) /\ dec.out = NoVariant)

\* a document without href whose navigational link lacks rel was decoded
C7_Witness ==
  /\ dec.kind = "SubEntity"
  /\ dec.doc = JObj([rel |-> JStrings(<<"item">>),
                     links |-> JArr(<<JObj([href |-> JStr("http://x/1")])>>)])
  /\ NeitherShape(dec.doc)
  /\ ~IsOk(dec.out)

\* -------------------------------------------------- properties: builder
\* the arguments of the calls of one operation, in call order
ArgsOf(l, op) ==
  LET cs == SelectSeq(l, LAMBDA c : c.op = op)
  IN [i \in 1..Len(cs) |-> cs[i].arg]

NonObjectKinds == {"i64", "String", "bool", "unit", "Vec"}
StringKeyed(v) == v[1] = "Map" /\ \A i \in 1..Len(v[2]) : v[2][i][1][1] = "String"

\* C3: with_properties is Err(NotAnObject) for a number, string, boolean,
\* null or array, Ok with the JSON form as properties exactly for an object,
\* and Err(Serde) for a value that has no JSON form.
C3_ObjectOnlyProperties ==
  result # <<>> =>
    LET a == result[1].arg
        out == result[1].out
    IN /\ a[1] \in NonObjectKinds => (out[1] = "Err" /\ out[2] = "NotAnObject")
       /\ StringKeyed(a) => (IsOk(out) /\ Ok(out[2].properties) = ToValue(a))
       /\ a = KevinMap => (IsOk(out) /\ out[2].properties = KevinObject)
       /\ (a[1] = "Map" /\ ~StringKeyed(a)) => (out[1] = "Err" /\ out[2] = "Serde")
       /\ IsOk(out) => StringKeyed(a)

\* with_properties([1,2]) was called and refused
C3_Witness ==
  /\ result # <<>>
  /\ result[1].arg = RVec(<<RInt(1), RInt(2)>>)
  /\ result[1].out[1] = "Err"
  /\ ~held

\* C8: push_sub_entity puts its argument last and leaves the sub-entities
\* already there as they were; after N calls on an Entity without
\* sub-entities, entities holds the N arguments in call order.
C8_MonotonicAppend ==
  /\ [](held => entity.entities = ArgsOf(log, "push_sub_entity"))
  /\ [][(Len(log') = Len(log) + 1 /\ log'[Len(log')].op = "push_sub_entity")
          => /\ Len(entity'.entities) = Len(entity.entities) + 1
             /\ SubSeq(entity'.entities, 1, Len(entity.entities)) = entity.entities
             /\ entity'.entities[Len(entity'.entities)] = log'[Len(log')].arg]_vars

\* two different sub-entities were pushed
C8_Witness ==
  /\ held
  /\ Len(ArgsOf(log, "push_sub_entity")) >= 2
  /\ entity.entities[1] # entity.entities[2]

\* C9: the class array of the encoded Entity is the sequence of the
\* with_class_member arguments in call order, duplicates included.
C9_ClassOrder ==
  rt # <<>> =>
    /\ rt[1].wire[2].class = JStrings(ArgsOf(rt[1].log, "with_class_member"))
    /\ ArgsOf(rt[1].log, "with_class_member") = <<"a", "b", "c">>
         => rt[1].wire[2].class = <<"arr", <<JStr("a"), JStr("b"), JStr("c")>>>>

\* "a", "b", "c" were appended in that order and the Entity was encoded
C9_Witness ==
  /\ rt # <<>>
  /\ ArgsOf(rt[1].log, "with_class_member") = <<"a", "b", "c">>
  /\ rt[1].wire[2].class[1] = "arr"

\* the properties the calls in the log leave behind
PropertiesOf(l) ==
  LET ps == ArgsOf(l, "with_properties")
  IN IF Len(ps) = 0 THEN EmptyObject ELSE ToValue(ps[Len(ps)])[2]

\* C10: each builder operation changes its own field only, the appends add
\* one element at the end, and so every field is what its own calls made it.
C10_Frame ==
  /\ [](held => entity = [class |-> ArgsOf(log, "with_class_member"),
                          properties |-> PropertiesOf(log),
                          entities |-> ArgsOf(log, "push_sub_entity"),
                          links |-> ArgsOf(log, "with_link"),
                          actions |-> ArgsOf(log, "with_action"),
                          title |-> None])
  /\ [][(Len(log') = Len(log) + 1 /\ held') =>
          LET c == log'[Len(log')]
          IN CASE c.op = "with_properties" ->
                    entity' = [entity EXCEPT !.properties = ToValue(c.arg)[2]]
               [] c.op = "with_class_member" ->
                    entity' = [entity EXCEPT !.class = Append(@, c.arg)]
               [] c.op = "with_link" ->
                    entity' = [entity EXCEPT !.links = Append(@, c.arg)]
               [] c.op = "with_action" ->
                    entity' = [entity EXCEPT !.actions = Append(@, c.arg)]
               [] c.op = "push_sub_entity" ->
                    entity' = [entity EXCEPT !.entities = Append(@, c.arg)]]_vars

\* three different operations were interleaved, with_properties last
C10_Witness ==
  /\ held
  /\ Len(log) = 3
  /\ log[3].op = "with_properties"
  /\ Len(entity.class) = 1 /\ Len(entity.links) = 1
  /\ entity.properties # EmptyObject
====
